---------------------------- MODULE Spec2Model ----------------------------
(***************************************************************************)
(* Model of the moderation gateway of src/main.go: the handler             *)
(* handleChatCompletions with its helpers (getUserContent, splitText,      *)
(* moderateContent, logFlaggedContent, handleFlaggedContent,               *)
(* replaceModelValue, proxyRequest) and the two remote services it calls.  *)
(*                                                                         *)
(* Texts are byte strings kept in run-length form: a sequence of runs      *)
(* [c |-> byte, n |-> count] with no empty run and no two adjacent runs of *)
(* the same byte.  Two texts are equal as strings iff their run-length     *)
(* forms are equal, so the real sizes of the program (48000, 10*1024,      *)
(* 100*1024) are used unscaled.                                            *)
(***************************************************************************)
EXTENDS Integers, Sequences, FiniteSets, TLC

\* ------------------------------------------------------------------ bounds

\* Longest message list a request carries.
MaxMsgs == 2

\* Number of request slots of the server (goroutines gin may run at once).
NumReqs == 2

Reqs == 1 .. NumReqs

\* The slot the sequential specification Spec drives.
SeqReqs == {1}

\* Number of GET /api/getBannedContent requests in flight at once.
NumViewers == 2

Viewers == 1 .. NumViewers

\* ------------------------------------------------------- program constants

\* len(text) <= 48000, i += 48000 in splitText.
MaxChunk == 48000

\* 10*1024 in handleChatCompletions.
MidTierAbove == 10 * 1024

\* 100*1024 in handleChatCompletions.
FastTierAbove == 100 * 1024

\* len(content) < 4096 in moderateContent.
OmniBelow == 4096

\* httpClient.Timeout, in seconds.
httpClientTimeout == 180

\* The zero value of http.Client.Timeout: no timeout.
NoTimeout == 0

\* ------------------------------------------------------------------- texts

Run(c, n) == IF n = 0 THEN << >> ELSE << [c |-> c, n |-> n] >>

RECURSIVE TLen(_)
\* len(s)
TLen(t) == IF t = << >> THEN 0 ELSE Head(t).n + TLen(Tail(t))

\* a + b
Cat(a, b) ==
    IF a = << >> THEN b
    ELSE IF b = << >> THEN a
    ELSE IF a[Len(a)].c = b[1].c
         THEN SubSeq(a, 1, Len(a) - 1)
                \o << [c |-> b[1].c, n |-> a[Len(a)].n + b[1].n] >>
                \o Tail(b)
         ELSE a \o b

RECURSIVE Drop(_, _)
\* s[i:]
Drop(t, i) ==
    IF i = 0 \/ t = << >> THEN t
    ELSE IF Head(t).n <= i THEN Drop(Tail(t), i - Head(t).n)
    ELSE << [c |-> Head(t).c, n |-> Head(t).n - i] >> \o Tail(t)

RECURSIVE Take(_, _)
\* s[:j]
Take(t, j) ==
    IF j <= 0 \/ t = << >> THEN << >>
    ELSE IF Head(t).n <= j THEN << Head(t) >> \o Take(Tail(t), j - Head(t).n)
    ELSE << [c |-> Head(t).c, n |-> j] >>

\* s[i:j]
Slice(t, i, j) == Take(Drop(t, i), j - i)

RECURSIVE Join(_, _)
\* strings.Join(elems, sep)
Join(elems, sep) ==
    IF elems = << >> THEN << >>
    ELSE IF Len(elems) = 1 THEN elems[1]
    ELSE Cat(elems[1], Cat(sep, Join(Tail(elems), sep)))

\* ------------------------------------------------------------------ inputs

\* Message contents: the empty text, a short one, and texts at the sizes the
\* program compares with (10*1024, 48000, 100*1024 and the byte below it).
Contents ==
    { << >>, Run("a", 3), Run("b", MidTierAbove), Run("a", MaxChunk),
      Run("a", FastTierAbove - 1), Run("a", FastTierAbove) }

\* The contents tried for the roles other than "user".
SmallContents == { << >>, Run("a", 3), Run("b", MidTierAbove) }

Messages ==
    [Role : {"user"}, Content : Contents]
      \cup [Role : {"system"}, Content : SmallContents]
      \cup [Role : {"assistant"}, Content : SmallContents \ { << >> }]

MessageLists == UNION { [1 .. n -> Messages] : n \in 0 .. MaxMsgs }

\* The "model" key of the inbound JSON object: absent, or a string.
ModelKeys ==
    { [present |-> FALSE, value |-> ""] }
      \cup { [present |-> TRUE, value |-> m] : m \in {"", "gpt-4o", "glm-4-plus"} }

\* 2^30: a JSON integer is kept as [hi, lo], its value hi * 2^30 + lo.
NumBase == 1073741824

\* 2^23: hi of 2^53, the first integer from which float64 has gaps.
ExactBelowHi == 8388608

\* A top-level key the request struct does not declare ("seed", an integer):
\* absent, or present with its value.
NoSeed == [present |-> FALSE, hi |-> 0, lo |-> 0]

SmallSeed == [present |-> TRUE, hi |-> 0, lo |-> 42]

\* 2^53 + 1 = 9007199254740993
BigSeed == [present |-> TRUE, hi |-> ExactBelowHi, lo |-> 1]

Docs ==
    [model : ModelKeys, messages : MessageLists, stream : BOOLEAN, seed : {NoSeed}]

EmptyDoc ==
    [ model |-> [present |-> FALSE, value |-> ""], messages |-> << >>,
      stream |-> FALSE, seed |-> NoSeed ]

\* Inbound bodies: one whose read fails, one that is not JSON for the request
\* struct, or a JSON object.  reencoded tells the inbound bytes from a fresh
\* encoding of the same document.
RawBodies ==
    { [kind |-> k, reencoded |-> FALSE, doc |-> EmptyDoc] :
        k \in {"unreadable", "invalid"} }
      \cup { [kind |-> "object", reencoded |-> FALSE, doc |-> d] : d \in Docs }

Configs ==
    [ MinCharsModerate : {0, 3, 5},
      FullContextModerate : BOOLEAN,
      WhiteListModels : { << "glm-4-plus" >> },
      WarningMsg : { "W" } ]


\* ----------------------------------------------------------- pure helpers

RECURSIVE collectContents(_)
\* The loop of getUserContent: the contents of the "user" and "system" messages.
collectContents(messages) ==
    IF messages = << >> THEN << >>
    ELSE LET msg == Head(messages)
         IN  (IF msg.Role = "user" \/ msg.Role = "system"
              THEN << msg.Content >> ELSE << >>)
               \o collectContents(Tail(messages))

\* The extraction of the older handler: "user" messages only.
getUserContentUserOnly(messages) ==
    Join([i \in 1 .. Len(SelectSeq(messages, LAMBDA m : m.Role = "user")) |->
              SelectSeq(messages, LAMBDA m : m.Role = "user")[i].Content],
         Run(" ", 1))

getUserContent(messages) == Join(collectContents(messages), Run(" ", 1))

\* A parse that takes any body for a request.
UnmarshalLenient(raw) ==
    [ err |-> FALSE,
      chatReq |-> [ Model |-> raw.doc.model.value,
                    Messages |-> raw.doc.messages,
                    Stream |-> raw.doc.stream ] ]

\* json.Unmarshal(body, &chatReq): fails unless the body is a JSON object;
\* an absent "model" key leaves the zero value "".
Unmarshal(raw) ==
    [ err |-> raw.kind # "object",
      chatReq |-> [ Model |-> raw.doc.model.value,
                    Messages |-> raw.doc.messages,
                    Stream |-> raw.doc.stream ] ]

\* var replaceModel string, set by the two length tests of handleChatCompletions.
replaceModelFor(length) ==
    LET first == IF length > MidTierAbove /\ length < FastTierAbove
                 THEN "glm-4-air" ELSE ""
    IN  IF length > FastTierAbove THEN "glm-4-flash" ELSE first

\* A JSON number decoded into interface{}: encoding/json gives a float64, so
\* an integer of [2^53, 2^54) is rounded to the nearest even integer, ties
\* to the even mantissa; json.Marshal then writes that float64 back.
float64Of(num) ==
    IF ~num.present \/ num.hi < ExactBelowHi \/ num.lo % 2 = 0 THEN num
    ELSE LET q  == num.lo \div 2
             lo == IF q % 2 = 0 THEN 2 * q ELSE 2 * (q + 1)
         IN  IF lo = NumBase
             THEN [present |-> TRUE, hi |-> num.hi + 1, lo |-> 0]
             ELSE [present |-> TRUE, hi |-> num.hi, lo |-> lo]

\* json.Unmarshal(input, &data) into map[string]interface{} followed by
\* json.Marshal(data), the model key left as it is.
throughGenericMap(doc) == [ doc EXCEPT !.seed = float64Of(@) ]

\* replaceModelValue: decode to a generic map, replace a string "model",
\* encode again (the result is a fresh encoding, not the inbound bytes).
replaceModelValue(input, newModelValue) ==
    IF input.kind # "object"
    THEN [ err |-> TRUE, output |-> input ]
    ELSE [ err |-> FALSE,
           output |->
             [ kind |-> "object",
               reencoded |-> TRUE,
               doc |-> IF input.doc.model.present
                       THEN [ throughGenericMap(input.doc)
                                EXCEPT !.model.value = newModelValue ]
                       ELSE throughGenericMap(input.doc) ] ]

\* A white-list test that compares with the rewritten model name.
InWhiteListRewritten(whiteListModels, model) ==
    \E i \in 1 .. Len(whiteListModels) : whiteListModels[i] = "glm-4-air"

\* for _, model := range config.WhiteListModels { if model == chatReq.Model ...
InWhiteList(whiteListModels, model) ==
    \E i \in 1 .. Len(whiteListModels) : whiteListModels[i] = model

RECURSIVE lastUserScan(_, _, _)
\* for i := len(Messages) - 1; i >= 0; i-- (indices here are 1-based).
lastUserScan(messages, i, userContent) ==
    IF i < 1 THEN userContent
    ELSE IF messages[i].Role = "user" THEN messages[i].Content
    ELSE lastUserScan(messages, i - 1, userContent)

\* The value of userContent at the threshold test, after the
\* !config.FullContextModerate block.
moderationText(fullContextModerate, messages, userContent) ==
    IF ~fullContextModerate /\ Len(messages) > 0
    THEN lastUserScan(messages, Len(messages), userContent)
    ELSE userContent

\* A threshold test that also lets a text of exactly the minimum through.
needsModerationAbove(userContent, minCharsModerate) ==
    TLen(userContent) > minCharsModerate

\* if len(userContent) >= config.MinCharsModerate
needsModeration(userContent, minCharsModerate) ==
    TLen(userContent) >= minCharsModerate

RECURSIVE splitLoop(_, _)
\* for i := 0; i < len(text); i += 48000
splitLoop(text, i) ==
    IF i < TLen(text)
    THEN LET end == IF i + MaxChunk > TLen(text) THEN TLen(text) ELSE i + MaxChunk
         IN  << Slice(text, i, end) >> \o splitLoop(text, i + MaxChunk)
    ELSE << >>

RECURSIVE splitLoopDropsTail(_, _)
\* A splitText loop that stops before a final partial chunk.
splitLoopDropsTail(text, i) ==
    IF i + MaxChunk <= TLen(text)
    THEN << Slice(text, i, i + MaxChunk) >> \o splitLoopDropsTail(text, i + MaxChunk)
    ELSE << >>

splitTextDropsTail(text) ==
    IF TLen(text) <= MaxChunk THEN << text >> ELSE splitLoopDropsTail(text, 0)

splitText(text) ==
    IF TLen(text) <= MaxChunk THEN << text >> ELSE splitLoop(text, 0)

\* The request moderateContent posts for one chunk.
moderationRequest(content) ==
    [ model |-> IF TLen(content) < OmniBelow
                THEN "omni-moderation-latest" ELSE "text-moderation-latest",
      input |-> content ]

\* What the moderation service may send back to one call.
ModerationReplies ==
    { [transport |-> "error", status |-> 0, decodable |-> FALSE, results |-> << >>],
      [transport |-> "ok", status |-> 500, decodable |-> TRUE, results |-> << >>],
      [transport |-> "ok", status |-> 200, decodable |-> FALSE, results |-> << >>],
      [transport |-> "ok", status |-> 200, decodable |-> TRUE, results |-> << >>],
      [transport |-> "ok", status |-> 200, decodable |-> TRUE, results |-> << FALSE >>],
      [transport |-> "ok", status |-> 200, decodable |-> TRUE, results |-> << TRUE >>],
      [transport |-> "ok", status |-> 200, decodable |-> TRUE,
       results |-> << FALSE, TRUE >>] }

\* httpClient.Do returning a timeout error.
TimeoutReply ==
    [transport |-> "error", status |-> 0, decodable |-> FALSE, results |-> << >>]

\* moderateContent's (flagged, err) for the reply its call got.
moderateContent(reply) ==
    IF reply.transport = "error" THEN [flagged |-> FALSE, err |-> TRUE]
    ELSE IF reply.status # 200 THEN [flagged |-> FALSE, err |-> TRUE]
    ELSE IF ~reply.decodable THEN [flagged |-> FALSE, err |-> TRUE]
    ELSE [ flagged |-> Len(reply.results) > 0 /\ reply.results[1],
           err |-> FALSE ]

\* A rejection that echoes the declared model, empty or not.
generateOpenAIStyleResponseNoDefault(warningMessage, model) ==
    [ ID |-> "chatcmpl-<24 random>",
      Object |-> "chat.completion.chunk",
      Model |-> model,
      SystemFingerprint |-> "fp_<12 random>",
      Choices |-> << [ Index |-> 0,
                       Delta |-> [content |-> warningMessage],
                       Logprobs |-> "null",
                       FinishReason |-> "stop" ] >> ]

generateOpenAIStyleResponse(warningMessage, model) ==
    [ ID |-> "chatcmpl-<24 random>",
      Object |-> "chat.completion.chunk",
      Model |-> IF model = "" THEN "gpt-4o-mini" ELSE model,
      SystemFingerprint |-> "fp_<12 random>",
      Choices |-> << [ Index |-> 0,
                       Delta |-> [content |-> warningMessage],
                       Logprobs |-> "null",
                       FinishReason |-> "stop" ] >> ]

\* c.SSEvent("", data)
SSEvent(name, data) == [event |-> name, data |-> data]

\* The payloads the two SSEvent calls carry.
JSONData(response) == [json |-> TRUE, value |-> response]

DoneData == [json |-> FALSE, value |-> "[DONE]"]

\* Most rounds of c.Stream's loop the model follows.
MaxStreamRounds == 3

RECURSIVE Stream(_, _)
\* c.Stream(step): runs step until it returns false.
Stream(step, rounds) ==
    IF rounds = 0 THEN << >>
    ELSE step.frames \o (IF step.keepOpen THEN Stream(step, rounds - 1) ELSE << >>)

\* The step function handleFlaggedContent gives to c.Stream.
streamStep(response) ==
    [ frames |-> << SSEvent("", JSONData(response)), SSEvent("", DoneData) >>,
      keepOpen |-> FALSE ]

\* A step that asks c.Stream to call it again.
streamStepKeepsOpen(response) ==
    [ frames |-> << SSEvent("", JSONData(response)), SSEvent("", DoneData) >>,
      keepOpen |-> TRUE ]

\* c.JSON(status, obj)
JSONResponse(status, obj) ==
    [ kind |-> "json", status |-> status, contentType |-> "application/json",
      body |-> obj, frames |-> << >> ]

\* handleFlaggedContent with the step of its stream branch given.
flaggedContentWith(step, isStream, response) ==
    IF isStream
    THEN [ kind |-> "sse", status |-> 200, contentType |-> "text/event-stream",
           body |-> [none |-> TRUE],
           frames |-> Stream(step, MaxStreamRounds) ]
    ELSE JSONResponse(200, response)

handleFlaggedContentKeepsOpen(warningMsg, isStream, model) ==
    LET response == generateOpenAIStyleResponse(warningMsg, model)
    IN  flaggedContentWith(streamStepKeepsOpen(response), isStream, response)

handleFlaggedContent(warningMsg, isStream, model) ==
    LET response == generateOpenAIStyleResponse(warningMsg, model)
    IN  flaggedContentWith(streamStep(response), isStream, response)

\* gin.H{"error": msg}
ErrorBody(msg) == [error |-> msg]

\* The response proxyRequest copies back from the downstream target.
ProxiedResponse(status, body) ==
    [ kind |-> "proxied", status |-> status, contentType |-> "downstream",
      body |-> [forwarded |-> body], frames |-> << >> ]

NoResponse ==
    [ kind |-> "none", status |-> 0, contentType |-> "", body |-> [none |-> TRUE],
      frames |-> << >> ]

\* ------------------------------------------------------------------- state

VARIABLES
    inbound,       \* per request: the body as the client sent it
    viewer,        \* each GetBanndedContent call: where it stands, its response
    config,        \* the Config loaded at startup
    fileMutex,     \* sync.RWMutex: [writer |-> holder or 0, readers |-> set]
    logFile,       \* the bytes of log.txt
    pc,            \* where each request's handler stands
    body,          \* body: the inbound bytes, then the body to forward
    chatReq,       \* the parsed OpenAIChatReq
    replaceModel,  \* the local replaceModel
    userContent,   \* the local userContent
    userContents,  \* the chunks of splitText(userContent)
    idx,           \* position of the range loop over userContents
    pending,       \* the outbound HTTP call the handler waits for
    modCalls,      \* requests posted to the moderation service, in order
    modResults,    \* what moderateContent returned, in order
    proxyCalls,    \* bodies posted to the downstream target, in order
    logWrites,     \* what this request's appendToFile calls wrote
    response       \* the response written to the client

vars ==
    << inbound, viewer, config, fileMutex, logFile, pc, body, chatReq, replaceModel, userContent,
       userContents, idx, pending, modCalls, modResults, proxyCalls, logWrites,
       response >>

NoCall == [client |-> "none", answers |-> FALSE]

\* http.Client.Timeout of the client that makes a call: httpClient for
\* moderateContent, a fresh &http.Client{} for proxyRequest.
ClientTimeout(client) ==
    IF client = "httpClient" THEN httpClientTimeout ELSE NoTimeout

\* The state of every slot before its request arrives.
InitSlots ==
    /\ viewer = [v \in Viewers |-> [pc |-> "idle", response |-> NoResponse]]
    /\ fileMutex = [writer |-> 0, readers |-> {}]
    /\ logFile = << >>
    /\ pc = [r \in Reqs |-> "idle"]
    /\ inbound = [r \in Reqs |-> [kind |-> "none", reencoded |-> FALSE, doc |-> EmptyDoc]]
    /\ body = [r \in Reqs |-> [kind |-> "none", reencoded |-> FALSE, doc |-> EmptyDoc]]
    /\ chatReq = [r \in Reqs |-> [Model |-> "", Messages |-> << >>, Stream |-> FALSE]]
    /\ replaceModel = [r \in Reqs |-> ""]
    /\ userContent = [r \in Reqs |-> << >>]
    /\ userContents = [r \in Reqs |-> << >>]
    /\ idx = [r \in Reqs |-> 0]
    /\ pending = [r \in Reqs |-> NoCall]
    /\ modCalls = [r \in Reqs |-> << >>]
    /\ modResults = [r \in Reqs |-> << >>]
    /\ proxyCalls = [r \in Reqs |-> << >>]
    /\ logWrites = [r \in Reqs |-> << >>]
    /\ response = [r \in Reqs |-> NoResponse]

Init == config \in Configs /\ InitSlots

\* ----------------------------------------------------------------- actions

\* gin hands a POST /v1/chat/completions to handleChatCompletions.
Receive(r) ==
    /\ pc[r] = "idle"
    /\ \E raw \in RawBodies :
           /\ inbound' = [inbound EXCEPT ![r] = raw]
           /\ body' = [body EXCEPT ![r] = raw]
    /\ pc' = [pc EXCEPT ![r] = "received"]
    /\ UNCHANGED << viewer, config, fileMutex, logFile, chatReq, replaceModel, userContent,
                    userContents, idx, pending, modCalls, modResults, proxyCalls,
                    logWrites, response >>

\* A chunk loop that forwards as soon as one chunk passes.
afterVerdictFirstOnly(verdict, i, n) ==
    IF verdict.err THEN "error"
    ELSE IF verdict.flagged THEN "log_lock"
    ELSE "proxy"

\* A chunk loop that goes on after a flagged chunk.
afterVerdictIgnoresFlag(verdict, i, n) ==
    IF verdict.err THEN "error"
    ELSE IF i < n THEN "moderate"
    ELSE IF verdict.flagged THEN "log_lock"
    ELSE "proxy"

\* A chunk loop that takes a failed moderation call for a pass.
afterVerdictIgnoresErr(verdict, i, n) ==
    IF verdict.flagged /\ ~verdict.err THEN "log_lock"
    ELSE IF i < n THEN "moderate"
    ELSE "proxy"

\* Where the handler goes after one moderateContent call of the chunk loop.
afterVerdict(verdict, i, n) ==
    IF verdict.err THEN "error"
    ELSE IF verdict.flagged THEN "log_lock"
    ELSE IF i < n THEN "moderate"
    ELSE "proxy"

\* handleChatCompletions from its first line to its first blocking call:
\* read and parse the body, choose and apply the model rewrite, test the
\* white list, pick the moderation text, test the threshold, split.
Prepare(r) ==
    /\ pc[r] = "received"
    /\ LET parsed  == Unmarshal(body[r])
           req     == parsed.chatReq
           full    == getUserContent(req.Messages)
           newName == replaceModelFor(TLen(full))
           rewrite == IF newName # "" THEN replaceModelValue(body[r], newName)
                      ELSE [err |-> FALSE, output |-> body[r]]
           white   == InWhiteList(config.WhiteListModels, req.Model)
           text    == IF white THEN full
                      ELSE moderationText(config.FullContextModerate,
                                          req.Messages, full)
           moderate == ~white /\ needsModeration(text, config.MinCharsModerate)
       IN  IF body[r].kind = "unreadable"
           THEN /\ response' = [response EXCEPT ![r] =
                       JSONResponse(400, ErrorBody("Error reading request body"))]
                /\ pc' = [pc EXCEPT ![r] = "done"]
                /\ UNCHANGED << body, chatReq, replaceModel, userContent,
                                userContents, idx >>
           ELSE IF parsed.err
           THEN /\ response' = [response EXCEPT ![r] =
                       JSONResponse(400, ErrorBody("json.Unmarshal"))]
                /\ pc' = [pc EXCEPT ![r] = "done"]
                /\ UNCHANGED << body, chatReq, replaceModel, userContent,
                                userContents, idx >>
           ELSE IF rewrite.err
           THEN /\ response' = [response EXCEPT ![r] =
                       JSONResponse(500, ErrorBody("Error replacing model value"))]
                /\ pc' = [pc EXCEPT ![r] = "done"]
                /\ chatReq' = [chatReq EXCEPT ![r] = req]
                /\ replaceModel' = [replaceModel EXCEPT ![r] = newName]
                /\ userContent' = [userContent EXCEPT ![r] = full]
                /\ UNCHANGED << body, userContents, idx >>
           ELSE /\ chatReq' = [chatReq EXCEPT ![r] = req]
                /\ replaceModel' = [replaceModel EXCEPT ![r] = newName]
                /\ body' = [body EXCEPT ![r] = rewrite.output]
                /\ userContent' = [userContent EXCEPT ![r] = text]
                /\ userContents' = [userContents EXCEPT ![r] =
                       IF moderate THEN splitText(text) ELSE << >>]
                /\ idx' = [idx EXCEPT ![r] = IF moderate THEN 1 ELSE 0]
                /\ pc' = [pc EXCEPT ![r] = IF moderate THEN "moderate" ELSE "proxy"]
                /\ UNCHANGED response
    /\ UNCHANGED << inbound, viewer, config, fileMutex, logFile, pending, modCalls, modResults,
                    proxyCalls, logWrites >>

\* moderateContent(userContent) up to httpClient.Do: the request is posted;
\* the service will answer it or stay silent.
ModerateCall(r) ==
    /\ pc[r] = "moderate"
    /\ modCalls' = [modCalls EXCEPT ![r] =
           Append(@, moderationRequest(userContents[r][idx[r]]))]
    /\ \E answers \in BOOLEAN :
           pending' = [pending EXCEPT ![r] =
               [client |-> "httpClient", answers |-> answers]]
    /\ pc' = [pc EXCEPT ![r] = "mod_wait"]
    /\ UNCHANGED << inbound, viewer, config, fileMutex, logFile, body, chatReq, replaceModel,
                    userContent, userContents, idx, modResults, proxyCalls,
                    logWrites, response >>

\* The rest of one round of the chunk loop, for the reply httpClient.Do got.
ModerateDone(r, reply) ==
    LET verdict == moderateContent(reply)
        next    == afterVerdict(verdict, idx[r], Len(userContents[r]))
    IN  /\ modResults' = [modResults EXCEPT ![r] = Append(@, verdict)]
        /\ pending' = [pending EXCEPT ![r] = NoCall]
        /\ idx' = [idx EXCEPT ![r] = IF next = "moderate" THEN @ + 1 ELSE @]
        /\ pc' = [pc EXCEPT ![r] = IF next = "error" THEN "done" ELSE next]
        /\ response' = [response EXCEPT ![r] =
               IF next = "error"
               THEN JSONResponse(500, ErrorBody("Moderation error"))
               ELSE @]
        /\ UNCHANGED << inbound, viewer, config, fileMutex, logFile, body, chatReq, replaceModel,
                        userContent, userContents, modCalls, proxyCalls, logWrites >>

\* The moderation service answers.
ModerateReturn(r) ==
    /\ pc[r] = "mod_wait"
    /\ pending[r].answers
    /\ \E reply \in ModerationReplies : ModerateDone(r, reply)

\* proxyRequest(c, body) up to client.Do: the body is posted to the target.
ProxyCall(r) ==
    /\ pc[r] = "proxy"
    /\ proxyCalls' = [proxyCalls EXCEPT ![r] = Append(@, body[r])]
    /\ \E answers \in BOOLEAN :
           pending' = [pending EXCEPT ![r] =
               [client |-> "http.Client{}", answers |-> answers]]
    /\ pc' = [pc EXCEPT ![r] = "proxy_wait"]
    /\ UNCHANGED << inbound, viewer, config, fileMutex, logFile, body, chatReq, replaceModel,
                    userContent, userContents, idx, modCalls, modResults,
                    logWrites, response >>

\* What the downstream target may send back to one call.
DownstreamReplies ==
    { [transport |-> "error", status |-> 0],
      [transport |-> "ok", status |-> 200],
      [transport |-> "ok", status |-> 429] }

\* The rest of proxyRequest, for the reply client.Do got.
ProxyDone(r, reply) ==
    /\ pending' = [pending EXCEPT ![r] = NoCall]
    /\ response' = [response EXCEPT ![r] =
           IF reply.transport = "error"
           THEN JSONResponse(500, ErrorBody("Error forwarding request"))
           ELSE ProxiedResponse(reply.status, body[r])]
    /\ pc' = [pc EXCEPT ![r] = "done"]
    /\ UNCHANGED << inbound, viewer, config, fileMutex, logFile, body, chatReq, replaceModel,
                    userContent, userContents, idx, modCalls, modResults,
                    proxyCalls, logWrites >>

\* The downstream target answers.
ProxyReturn(r) ==
    /\ pc[r] = "proxy_wait"
    /\ pending[r].answers
    /\ \E reply \in DownstreamReplies : ProxyDone(r, reply)

\* The service stays silent and the calling client's Timeout, if it has one,
\* ends the call with an error.
CallTimeout(r) ==
    /\ pc[r] \in {"mod_wait", "proxy_wait"}
    /\ ~pending[r].answers
    /\ ClientTimeout(pending[r].client) > 0
    /\ IF pc[r] = "mod_wait"
       THEN ModerateDone(r, TimeoutReply)
       ELSE ProxyDone(r, [transport |-> "error", status |-> 0])

\* What the file system may do to one appendToFile call: OpenFile fails, or
\* WriteString writes all of the content or only a prefix of it.
AppendOutcomes(content) ==
    { [open |-> FALSE, written |-> 0],
      [open |-> TRUE, written |-> 0],
      [open |-> TRUE, written |-> TLen(content) \div 2],
      [open |-> TRUE, written |-> TLen(content)] }

\* An open without os.O_APPEND: the write starts at offset 0 of the file.
appendToFileFromStart(file, content, io) ==
    IF ~io.open THEN [file |-> file, err |-> TRUE]
    ELSE [ file |-> Cat(Take(content, io.written),
                        Drop(file, IF io.written < TLen(file)
                                   THEN io.written ELSE TLen(file))),
           err |-> io.written < TLen(content) ]

appendToFile(file, content, io) ==
    IF ~io.open THEN [file |-> file, err |-> TRUE]
    ELSE [ file |-> Cat(file, Take(content, io.written)),
           err |-> io.written < TLen(content) ]

\* The chunk the range loop stands on.
flaggedChunk(r) == userContents[r][idx[r]]

\* logFlaggedContent: fileMutex.Lock().
LogLock(r) ==
    /\ pc[r] = "log_lock"
    /\ fileMutex.writer = 0
    /\ fileMutex.readers = {}
    /\ fileMutex' = [fileMutex EXCEPT !.writer = r]
    /\ pc' = [pc EXCEPT ![r] = "log_write"]
    /\ UNCHANGED << inbound, viewer, config, logFile, body, chatReq, replaceModel, userContent,
                    userContents, idx, pending, modCalls, modResults, proxyCalls,
                    logWrites, response >>

\* logFlaggedContent: appendToFile("log.txt", content+"\n"), its error only
\* reported.
LogAppend(r) ==
    /\ pc[r] = "log_write"
    /\ LET content == Cat(flaggedChunk(r), Run("\n", 1))
       IN  \E io \in AppendOutcomes(content) :
             LET res == appendToFile(logFile, content, io)
             IN  /\ logFile' = res.file
                 /\ logWrites' = [logWrites EXCEPT ![r] =
                        Append(@, [content |-> content, err |-> res.err])]
    /\ pc' = [pc EXCEPT ![r] = "log_unlock"]
    /\ UNCHANGED << inbound, viewer, config, fileMutex, body, chatReq, replaceModel, userContent,
                    userContents, idx, pending, modCalls, modResults, proxyCalls,
                    response >>

\* A logFlaggedContent that returns on a failed append before it unlocks.
LogUnlockKeepsLockOnErr(r) ==
    /\ pc[r] = "log_unlock"
    /\ fileMutex' = [fileMutex EXCEPT !.writer =
           IF logWrites[r][Len(logWrites[r])].err THEN @ ELSE 0]
    /\ response' = [response EXCEPT ![r] =
           handleFlaggedContent(config.WarningMsg, chatReq[r].Stream,
                                chatReq[r].Model)]
    /\ pc' = [pc EXCEPT ![r] = "done"]
    /\ UNCHANGED << inbound, viewer, config, logFile, body, chatReq, replaceModel,
                    userContent, userContents, idx, pending, modCalls, modResults,
                    proxyCalls, logWrites >>

\* A handler that answers 500 when the log write failed.
LogUnlockFailsOnErr(r) ==
    /\ pc[r] = "log_unlock"
    /\ fileMutex' = [fileMutex EXCEPT !.writer = 0]
    /\ response' = [response EXCEPT ![r] =
           IF logWrites[r][Len(logWrites[r])].err
           THEN JSONResponse(500, ErrorBody("Error writing log"))
           ELSE handleFlaggedContent(config.WarningMsg, chatReq[r].Stream,
                                     chatReq[r].Model)]
    /\ pc' = [pc EXCEPT ![r] = "done"]
    /\ UNCHANGED << inbound, viewer, config, logFile, body, chatReq, replaceModel, userContent,
                    userContents, idx, pending, modCalls, modResults, proxyCalls,
                    logWrites >>

\* A handler without the return after handleFlaggedContent: it answers and
\* goes on to proxyRequest.
LogUnlockNoReturn(r) ==
    /\ pc[r] = "log_unlock"
    /\ fileMutex' = [fileMutex EXCEPT !.writer = 0]
    /\ response' = [response EXCEPT ![r] =
           handleFlaggedContent(config.WarningMsg, chatReq[r].Stream,
                                chatReq[r].Model)]
    /\ pc' = [pc EXCEPT ![r] = "proxy"]
    /\ UNCHANGED << inbound, viewer, config, logFile, body, chatReq, replaceModel, userContent,
                    userContents, idx, pending, modCalls, modResults, proxyCalls,
                    logWrites >>

\* logFlaggedContent returns (the deferred fileMutex.Unlock()), then
\* handleFlaggedContent(c, chatReq.Stream, chatReq.Model) answers the client.
LogUnlock(r) ==
    /\ pc[r] = "log_unlock"
    /\ fileMutex' = [fileMutex EXCEPT !.writer = 0]
    /\ response' = [response EXCEPT ![r] =
           handleFlaggedContent(config.WarningMsg, chatReq[r].Stream,
                                chatReq[r].Model)]
    /\ pc' = [pc EXCEPT ![r] = "done"]
    /\ UNCHANGED << inbound, viewer, config, logFile, body, chatReq, replaceModel, userContent,
                    userContents, idx, pending, modCalls, modResults, proxyCalls,
                    logWrites >>

\* --------------------------------------------------------- the log viewer

RECURSIVE replaceNewlines(_)
\* strings.ReplaceAll(s, "\n", "<br>")
replaceNewlines(t) ==
    IF t = << >> THEN << >>
    ELSE LET br   == << [c |-> "<", n |-> 1], [c |-> "b", n |-> 1],
                        [c |-> "r", n |-> 1], [c |-> ">", n |-> 1] >>
             rest == replaceNewlines(Tail(t))
         IN  IF Head(t).c # "\n" THEN Cat(<< Head(t) >>, rest)
             ELSE IF Head(t).n = 1 THEN Cat(br, rest)
             ELSE Cat(br, replaceNewlines(
                     << [c |-> "\n", n |-> Head(t).n - 1] >> \o Tail(t)))

\* c.Data(200, "text/html; charset=utf-8", "<html><body>%s</body></html>")
HTMLResponse(htmlContent) ==
    [ kind |-> "html", status |-> 200, contentType |-> "text/html; charset=utf-8",
      body |-> [html |-> htmlContent], frames |-> << >> ]

\* gin hands a GET /api/getBannedContent to GetBanndedContent.
ViewArrive(v) ==
    /\ viewer[v].pc = "idle"
    /\ viewer' = [viewer EXCEPT ![v].pc = "rlock"]
    /\ UNCHANGED << inbound, config, fileMutex, logFile, pc, body, chatReq, replaceModel,
                    userContent, userContents, idx, pending, modCalls, modResults,
                    proxyCalls, logWrites, response >>

\* GetBanndedContent: fileMutex.RLock().
ViewLock(v) ==
    /\ viewer[v].pc = "rlock"
    /\ fileMutex.writer = 0
    /\ fileMutex' = [fileMutex EXCEPT !.readers = @ \cup {v}]
    /\ viewer' = [viewer EXCEPT ![v].pc = "reading"]
    /\ UNCHANGED << inbound, config, logFile, pc, body, chatReq, replaceModel,
                    userContent, userContents, idx, pending, modCalls, modResults,
                    proxyCalls, logWrites, response >>

\* GetBanndedContent: os.ReadFile("log.txt") fails or gives the file, and
\* the response is written.
ViewRead(v) ==
    /\ viewer[v].pc = "reading"
    /\ \E ok \in BOOLEAN :
           viewer' = [viewer EXCEPT ![v] =
               [ pc |-> "runlock",
                 response |->
                   IF ok THEN HTMLResponse(replaceNewlines(logFile))
                   ELSE JSONResponse(200, ErrorBody("log.txt read error")) ]]
    /\ UNCHANGED << inbound, config, fileMutex, logFile, pc, body, chatReq, replaceModel,
                    userContent, userContents, idx, pending, modCalls, modResults,
                    proxyCalls, logWrites, response >>

\* GetBanndedContent returns: the deferred fileMutex.RUnlock().
ViewUnlock(v) ==
    /\ viewer[v].pc = "runlock"
    /\ fileMutex' = [fileMutex EXCEPT !.readers = @ \ {v}]
    /\ viewer' = [viewer EXCEPT ![v].pc = "done"]
    /\ UNCHANGED << inbound, config, logFile, pc, body, chatReq, replaceModel,
                    userContent, userContents, idx, pending, modCalls, modResults,
                    proxyCalls, logWrites, response >>

\* ------------------------------------------------------------ specification

\* One step of the request in slot r: its arrival, or a step of its handler.
Step(r) ==
    \/ Receive(r)
    \/ Prepare(r)
    \/ ModerateCall(r)
    \/ ModerateReturn(r)
    \/ CallTimeout(r)
    \/ LogLock(r)
    \/ LogAppend(r)
    \/ LogUnlock(r)
    \/ ProxyCall(r)
    \/ ProxyReturn(r)

\* One request at a time, over every input of RawBodies and every Config.
Next == \E r \in SeqReqs : Step(r)

Spec == Init /\ [][Next]_vars

\* The configuration of the concurrent specification.
ConcConfig ==
    [ MinCharsModerate |-> 3, FullContextModerate |-> FALSE,
      WhiteListModels |-> << "glm-4-plus" >>, WarningMsg |-> "W" ]

\* The bodies of the concurrent specification: a short moderated request, a
\* request over 10 KiB whose last user message is empty (rewritten, not
\* moderated, with an integer key over 2^53), and a streamed moderated one.
ConcBodies ==
    { [ kind |-> "object", reencoded |-> FALSE,
        doc |-> [ model |-> [present |-> TRUE, value |-> "gpt-4o"],
                  messages |-> << [Role |-> "user", Content |-> Run("a", 3)] >>,
                  stream |-> FALSE, seed |-> NoSeed ] ],
      [ kind |-> "object", reencoded |-> FALSE,
        doc |-> [ model |-> [present |-> TRUE, value |-> "gpt-4o"],
                  messages |-> << [Role |-> "user", Content |-> Run("b", MidTierAbove)],
                                  [Role |-> "user", Content |-> << >>] >>,
                  stream |-> FALSE, seed |-> BigSeed ] ],
      [ kind |-> "object", reencoded |-> FALSE,
        doc |-> [ model |-> [present |-> FALSE, value |-> ""],
                  messages |-> << [Role |-> "user", Content |-> Run("b", MidTierAbove)] >>,
                  stream |-> TRUE, seed |-> SmallSeed ] ] }

InitConc == config = ConcConfig /\ InitSlots

\* A request of the concurrent specification arrives.
ReceiveConc(r) ==
    /\ pc[r] = "idle"
    /\ \E raw \in ConcBodies :
           /\ inbound' = [inbound EXCEPT ![r] = raw]
           /\ body' = [body EXCEPT ![r] = raw]
    /\ pc' = [pc EXCEPT ![r] = "received"]
    /\ UNCHANGED << viewer, config, fileMutex, logFile, chatReq, replaceModel,
                    userContent, userContents, idx, pending, modCalls, modResults,
                    proxyCalls, logWrites, response >>

\* The steps of logFlaggedContent.
LogStep(r) == LogLock(r) \/ LogAppend(r) \/ LogUnlock(r)

\* The steps of GetBanndedContent once its request arrived.
ViewStep(v) == ViewLock(v) \/ ViewRead(v) \/ ViewUnlock(v)

\* Every slot runs a chat request and every viewer a log view, in any
\* interleaving.
NextConc ==
    \/ \E r \in Reqs :
          \/ ReceiveConc(r)
          \/ Prepare(r)
          \/ ModerateCall(r)
          \/ ModerateReturn(r)
          \/ CallTimeout(r)
          \/ LogLock(r)
          \/ LogAppend(r)
          \/ LogUnlock(r)
          \/ ProxyCall(r)
          \/ ProxyReturn(r)
    \/ \E v \in Viewers :
          \/ ViewArrive(v)
          \/ ViewLock(v)
          \/ ViewRead(v)
          \/ ViewUnlock(v)

SpecConc == InitConc /\ [][NextConc]_vars

\* The Go scheduler runs every goroutine that can run: a handler inside
\* logFlaggedContent or GetBanndedContent takes its next step whenever that
\* step stays possible.
SpecFair ==
    /\ SpecConc
    /\ \A r \in Reqs : WF_vars(LogStep(r))
    /\ \A v \in Viewers : WF_vars(ViewStep(v))

\* ------------------------------------------------- vocabulary of the claims

\* The handler of r is past the parse of its body (a JSON object).
Parsed(r) == pc[r] \notin {"idle", "received"} /\ body[r].kind = "object"

\* The declared model equals an entry of white_list_models.
Allowed(r) ==
    \E i \in DOMAIN config.WhiteListModels :
        config.WhiteListModels[i] = chatReq[r].Model

\* The handler of r reached the threshold test with userContent[r].
Checked(r) == Parsed(r) /\ ~Allowed(r)

RECURSIVE CatAll(_)
\* The concatenation of a sequence of texts, in order.
CatAll(ts) == IF ts = << >> THEN << >> ELSE Cat(Head(ts), CatAll(Tail(ts)))

Passed == [flagged |-> FALSE, err |-> FALSE]

\* The texts moderateContent was called on, in order.
Moderated(r) == [i \in 1 .. Len(modCalls[r]) |-> modCalls[r][i].input]

SomeFlagged(r) == \E i \in 1 .. Len(modResults[r]) : modResults[r][i].flagged

SomeErr(r) == \E i \in 1 .. Len(modResults[r]) : modResults[r][i].err

\* The synthesized rejection, in either framing.
IsRejection(resp) ==
    resp.kind = "sse" \/ (resp.kind = "json" /\ resp.status = 200)

\* proxyRequest was entered and has not been left with anything but its own
\* outcome.
OnProxyPath(r) ==
    \/ pc[r] = "proxy" /\ proxyCalls[r] = << >>
    \/ pc[r] = "proxy_wait" /\ Len(proxyCalls[r]) = 1
    \/ /\ pc[r] = "done"
       /\ Len(proxyCalls[r]) = 1
       /\ \/ response[r].kind = "proxied"
          \/ response[r] = JSONResponse(500, ErrorBody("Error forwarding request"))

\* ------------------------------------------------------------------ claims

\* C1: a request whose model is not allow-listed and whose moderation text
\* is at least min_chars_moderate long is forwarded only after
\* moderateContent was called on every chunk of splitText(text) and every
\* call returned not-flagged without error; once a call returns flagged the
\* request is never forwarded and ends with the rejection response.
C1_ForwardOnlyAfterAllChunksPass ==
    \A r \in Reqs :
        (Checked(r) /\ TLen(userContent[r]) >= config.MinCharsModerate) =>
            /\ (proxyCalls[r] # << >>) =>
                   /\ Moderated(r) = splitText(userContent[r])
                   /\ Len(modResults[r]) = Len(modCalls[r])
                   /\ \A i \in 1 .. Len(modResults[r]) : modResults[r][i] = Passed
            /\ SomeFlagged(r) =>
                   /\ proxyCalls[r] = << >>
                   /\ pc[r] \in {"log_lock", "log_write", "log_unlock", "done"}
                   /\ (pc[r] = "done" => IsRejection(response[r]))

\* A request of three chunks, all passed, was forwarded.
C1_Witness ==
    \E r \in Reqs :
        /\ Checked(r)
        /\ Len(modCalls[r]) = 3
        /\ proxyCalls[r] # << >>
        /\ pc[r] = "done"

RECURSIVE LastUserOrEmpty(_)
\* The content of the last message with role "user", the empty text when
\* there is none: last-message extraction as C2 states it.
LastUserOrEmpty(messages) ==
    IF messages = << >> THEN << >>
    ELSE IF messages[Len(messages)].Role = "user"
         THEN messages[Len(messages)].Content
         ELSE LastUserOrEmpty(SubSeq(messages, 1, Len(messages) - 1))

\* C2: with full_context_moderate false, the text compared with
\* min_chars_moderate and submitted for moderation is the content of the
\* last "user" message, and the empty text when no message has role "user".
C2_LastUserOrEmptyText ==
    \A r \in Reqs :
        (Checked(r) /\ ~config.FullContextModerate) =>
            userContent[r] = LastUserOrEmpty(chatReq[r].Messages)

\* The rewrite C3 states for a full-context length.
TierOf(length) ==
    IF length <= 10 * 1024 THEN ""
    ELSE IF length <= 100 * 1024 THEN "glm-4-air"
    ELSE "glm-4-flash"

\* C3: the rewrite chosen is a function of the full-context length L only:
\* none for L <= 10*1024, "glm-4-air" for 10*1024 < L <= 100*1024,
\* "glm-4-flash" for L > 100*1024.
C3_RewriteTierByLength ==
    \A r \in Reqs :
        Parsed(r) =>
            replaceModel[r] = TierOf(TLen(getUserContent(chatReq[r].Messages)))

\* C4: no request can block forever on a remote service that never answers:
\* a handler waiting for the moderation call or for the forwarding call
\* always has a step left (the answer, or the timeout of its client), so
\* every request goes on to its terminal response.
C4_NoCallBlocksForever ==
    \A r \in SeqReqs :
        (pc[r] \in {"mod_wait", "proxy_wait"}) => ENABLED Step(r)

\* C5: a request whose declared model is an entry of white_list_models makes
\* no moderateContent call and is forwarded through proxyRequest, whatever
\* the content lengths, min_chars_moderate and full_context_moderate are.
C5_AllowListBypass ==
    \A r \in Reqs :
        (Parsed(r) /\ Allowed(r)) =>
            /\ modCalls[r] = << >>
            /\ modResults[r] = << >>
            /\ logWrites[r] = << >>
            /\ OnProxyPath(r)

\* An allow-listed request whose content is over the threshold, and over a
\* chunk, was forwarded.
C5_Witness ==
    \E r \in Reqs :
        /\ Parsed(r)
        /\ Allowed(r)
        /\ TLen(getUserContent(chatReq[r].Messages)) > MaxChunk
        /\ TLen(getUserContent(chatReq[r].Messages)) >= config.MinCharsModerate
        /\ pc[r] = "done"
        /\ response[r].kind = "proxied"

\* C6: moderation short-circuits: the calls are made on the chunks of the
\* moderated text in order, one at a time, and when call k is the first to
\* return flagged (no earlier call having failed) exactly k calls are made,
\* on chunks 1..k, and none on chunks k+1..N.
C6_ShortCircuit ==
    \A r \in Reqs :
        Checked(r) =>
            LET chunks == splitText(userContent[r])
                k      == Len(modCalls[r])
            IN  /\ k <= Len(chunks)
                /\ Moderated(r) = SubSeq(chunks, 1, k)
                /\ Len(modResults[r]) \in {k - 1, k}
                /\ \A i \in 1 .. Len(modResults[r]) :
                       modResults[r][i].flagged =>
                           /\ i = k
                           /\ \A j \in 1 .. i - 1 : modResults[r][j] = Passed

\* Of three chunks the second was flagged, and the request is answered.
C6_Witness ==
    \E r \in Reqs :
        /\ Checked(r)
        /\ Len(splitText(userContent[r])) = 3
        /\ Len(modResults[r]) = 2
        /\ modResults[r][2].flagged
        /\ pc[r] = "done"

\* C7: a moderation text shorter than min_chars_moderate causes no
\* moderateContent call and the request goes to proxyRequest; a text of
\* exactly min_chars_moderate is moderated (the comparison is strict).
C7_BelowThresholdBypass ==
    \A r \in Reqs :
        Checked(r) =>
            /\ (TLen(userContent[r]) < config.MinCharsModerate) =>
                   /\ modCalls[r] = << >>
                   /\ logWrites[r] = << >>
                   /\ OnProxyPath(r)
            /\ (TLen(userContent[r]) = config.MinCharsModerate) =>
                   \/ pc[r] = "moderate" /\ idx[r] = 1
                   \/ modCalls[r] # << >>

\* A non-empty text below the threshold was forwarded unmoderated.
C7_Witness ==
    \E r \in Reqs :
        /\ Checked(r)
        /\ userContent[r] # << >>
        /\ TLen(userContent[r]) < config.MinCharsModerate
        /\ pc[r] = "done"
        /\ response[r].kind = "proxied"

\* C8: when a moderateContent call returns an error, on any chunk, the
\* request ends with the 500 "Moderation error" response: that call is the
\* last one (no retry, no later chunk), nothing is written to the flag log
\* and proxyRequest is not called.
C8_ModerationErrorAborts ==
    \A r \in Reqs :
        \A i \in 1 .. Len(modResults[r]) :
            modResults[r][i].err =>
                /\ i = Len(modCalls[r])
                /\ pc[r] = "done"
                /\ response[r] = JSONResponse(500, ErrorBody("Moderation error"))
                /\ logWrites[r] = << >>
                /\ proxyCalls[r] = << >>

\* The call on the second chunk failed after the first chunk passed.
C8_Witness ==
    \E r \in Reqs :
        /\ Len(modResults[r]) = 2
        /\ modResults[r][1] = Passed
        /\ modResults[r][2].err
        /\ Len(splitText(userContent[r])) = 3

\* C9: splitText is lossless and order-preserving: the chunks concatenated
\* in order give the text back, every chunk is at most 48000 long, every
\* chunk but the last is exactly 48000 long, and a text of at most 48000
\* (the empty text included) gives the single chunk that is the text.
C9_SplitTextLossless ==
    \A r \in Reqs :
        (pc[r] \in {"moderate", "mod_wait"}) =>
            LET text   == userContent[r]
                chunks == userContents[r]
            IN  /\ Len(chunks) >= 1
                /\ CatAll(chunks) = text
                /\ \A i \in 1 .. Len(chunks) : TLen(chunks[i]) <= 48000
                /\ \A i \in 1 .. Len(chunks) - 1 : TLen(chunks[i]) = 48000
                /\ (TLen(text) <= 48000) => chunks = << text >>

\* A text of several runs was split in three, the last chunk a partial one.
C9_Witness ==
    \E r \in Reqs :
        /\ pc[r] = "moderate"
        /\ Len(userContents[r]) = 3
        /\ Len(userContent[r]) >= 3
        /\ TLen(userContents[r][3]) < 48000

\* C10: a rejected request is answered in the framing its stream flag asks
\* for: with stream=true two SSE frames, first the JSON payload with the
\* warning message under choices[0].delta.content, then "[DONE]", and no
\* frame after them; with stream=false one JSON body with status 200, the
\* same delta content and finish_reason "stop", and no SSE frame.
C10_RejectionFraming ==
    \A r \in Reqs :
        (pc[r] = "done" /\ SomeFlagged(r)) =>
            LET resp == response[r]
            IN  IF chatReq[r].Stream
                THEN /\ resp.kind = "sse"
                     /\ resp.contentType = "text/event-stream"
                     /\ Len(resp.frames) = 2
                     /\ resp.frames[1].data.json
                     /\ resp.frames[1].data.value.Choices[1].Delta.content
                            = config.WarningMsg
                     /\ resp.frames[2].data = [json |-> FALSE, value |-> "[DONE]"]
                ELSE /\ resp.kind = "json"
                     /\ resp.status = 200
                     /\ Len(resp.body.Choices) = 1
                     /\ resp.body.Choices[1].Delta.content = config.WarningMsg
                     /\ resp.body.Choices[1].FinishReason = "stop"
                     /\ resp.frames = << >>

\* A streaming request was rejected.
C10_Witness ==
    \E r \in Reqs :
        /\ pc[r] = "done"
        /\ SomeFlagged(r)
        /\ chatReq[r].Stream
        /\ Len(response[r].frames) = 2

\* C11: a failure of the flag-log write never changes what the client gets:
\* a request with a flagged chunk ends with the rejection response built
\* from the warning message, the stream flag and the declared model only,
\* whether appendToFile succeeded or failed; it never ends in an error
\* response and is never forwarded.
C11_LogFailureKeepsRejection ==
    \A r \in Reqs :
        SomeFlagged(r) =>
            /\ proxyCalls[r] = << >>
            /\ pc[r] \in {"log_lock", "log_write", "log_unlock", "done"}
            /\ pc[r] \in {"log_unlock", "done"} => Len(logWrites[r]) = 1
            /\ pc[r] = "done" =>
                   /\ IsRejection(response[r])
                   /\ response[r] =
                          handleFlaggedContent(config.WarningMsg, chatReq[r].Stream,
                                               chatReq[r].Model)

\* A rejected request whose log write failed.
C11_Witness ==
    \E r \in Reqs :
        /\ pc[r] = "done"
        /\ SomeFlagged(r)
        /\ logWrites[r] # << >>
        /\ logWrites[r][1].err
        /\ IsRejection(response[r])

\* Two bodies with the same top-level keys, equal in every value but that
\* of "model".
SameButModel(sent, original) ==
    /\ sent.kind = original.kind
    /\ sent.doc.model.present = original.doc.model.present
    /\ sent.doc.messages = original.doc.messages
    /\ sent.doc.stream = original.doc.stream
    /\ sent.doc.seed = original.doc.seed

\* C12: without a rewrite the body given to proxyRequest is the inbound
\* body byte for byte; with a rewrite only the value of the top-level
\* "model" key differs and every other top-level key is there with its
\* value unchanged.
C12_ForwardedBodyKeepsOtherKeys ==
    \A r \in Reqs :
        proxyCalls[r] # << >> =>
            /\ SameButModel(proxyCalls[r][1], inbound[r])
            /\ replaceModel[r] = "" => proxyCalls[r][1] = inbound[r]
            /\ (replaceModel[r] # "" /\ inbound[r].doc.model.present) =>
                   proxyCalls[r][1].doc.model.value = replaceModel[r]

\* The "user" and "system" messages of a list.
UserOrSystem(m) == m.Role \in {"user", "system"}

RECURSIVE SpaceJoined(_)
\* The contents of a list of messages with one space between neighbours,
\* built from the last message backwards.
SpaceJoined(ms) ==
    IF ms = << >> THEN << >>
    ELSE IF Len(ms) = 1 THEN ms[1].Content
    ELSE Cat(SpaceJoined(SubSeq(ms, 1, Len(ms) - 1)),
             Cat(Run(" ", 1), ms[Len(ms)].Content))

\* C13: getUserContent returns the contents of the "user" and "system"
\* messages, in their order, joined by one space; other roles add nothing
\* and the empty list gives the empty text.  The handler keeps the result
\* as its moderation text in full-context mode and for an allow-listed model.
C13_GetUserContentJoinsUserAndSystem ==
    \A r \in Reqs :
        (Parsed(r) /\ (config.FullContextModerate \/ Allowed(r))) =>
            /\ userContent[r] =
                   SpaceJoined(SelectSeq(chatReq[r].Messages, UserOrSystem))
            /\ chatReq[r].Messages = << >> => userContent[r] = << >>

\* A system message was joined with a user message.
C13_Witness ==
    \E r \in Reqs :
        /\ Parsed(r)
        /\ config.FullContextModerate
        /\ Len(chatReq[r].Messages) = 2
        /\ chatReq[r].Messages[1].Role = "system"
        /\ chatReq[r].Messages[2].Role = "user"
        /\ chatReq[r].Messages[1].Content # << >>
        /\ TLen(userContent[r]) =
               TLen(chatReq[r].Messages[1].Content) + 1
                 + TLen(chatReq[r].Messages[2].Content)

\* C14: a body that does not parse into a ChatRequest is answered with 400
\* and the handler ends: no moderateContent call, no append to the flag
\* log, no proxyRequest call.
C14_UnparsableBodyIs400 ==
    \A r \in Reqs :
        (body[r].kind = "invalid" /\ pc[r] # "received") =>
            /\ pc[r] = "done"
            /\ response[r].kind = "json"
            /\ response[r].status = 400
            /\ modCalls[r] = << >>
            /\ logWrites[r] = << >>
            /\ logFile = << >>
            /\ proxyCalls[r] = << >>
            /\ ~ENABLED Step(r)

\* An unparsable body was answered.
C14_Witness ==
    \E r \in Reqs :
        /\ body[r].kind = "invalid"
        /\ pc[r] = "done"
        /\ response[r].status = 400

\* The last message of role "user" of a list that has one.
LastUser(messages) ==
    messages[CHOOSE i \in DOMAIN messages :
                 /\ messages[i].Role = "user"
                 /\ \A j \in DOMAIN messages :
                        messages[j].Role = "user" => j <= i].Content

HasUser(messages) == \E i \in DOMAIN messages : messages[i].Role = "user"

\* C17: with full_context_moderate false the rewrite is decided by the
\* length of the full-context extraction and the threshold by the last
\* user message: a request whose full context is longer than 10 KiB and
\* whose last user message is shorter than min_chars_moderate is forwarded
\* with a rewritten model and without any moderation call.
C17_RewriteByFullContextThresholdByLastUser ==
    \A r \in Reqs :
        ( /\ Parsed(r)
          /\ ~config.FullContextModerate
          /\ HasUser(chatReq[r].Messages)
          /\ TLen(SpaceJoined(SelectSeq(chatReq[r].Messages, UserOrSystem)))
                 > MidTierAbove
          /\ TLen(LastUser(chatReq[r].Messages)) < config.MinCharsModerate ) =>
            /\ replaceModel[r] # ""
            /\ inbound[r].doc.model.present =>
                   body[r].doc.model.value = replaceModel[r]
            /\ modCalls[r] = << >>
            /\ OnProxyPath(r)

\* The model field of the payload of a rejection response.
RejectionModel(resp) ==
    IF resp.kind = "sse" THEN resp.frames[1].data.value.Model
    ELSE resp.body.Model

Outcomes(r) ==
    { o \in {"400", "500", "rejection", "forwarded"} :
        \/ o = "400" /\ response[r].kind = "json" /\ response[r].status = 400
        \/ o = "500" /\ response[r].kind = "json" /\ response[r].status = 500
        \/ o = "rejection" /\ IsRejection(response[r])
        \/ o = "forwarded" /\ response[r].kind = "proxied" }

\* C19: every request ends in exactly one terminal outcome out of 400,
\* 500, synthesized rejection and forwarded; rejection and forwarding never
\* both happen, proxyRequest is called at most once, and after the terminal
\* outcome the handler takes no step (no moderation call, no log append).
C19_ExactlyOneTerminalOutcome ==
    \A r \in Reqs :
        /\ response[r] # NoResponse <=> pc[r] = "done"
        /\ Len(proxyCalls[r]) <= 1
        /\ Len(logWrites[r]) <= 1
        /\ ~(logWrites[r] # << >> /\ proxyCalls[r] # << >>)
        /\ ~(SomeFlagged(r) /\ proxyCalls[r] # << >>)
        /\ pc[r] = "done" =>
               /\ Cardinality(Outcomes(r)) = 1
               /\ "rejection" \in Outcomes(r) =>
                      proxyCalls[r] = << >> /\ Len(logWrites[r]) = 1
               /\ "forwarded" \in Outcomes(r) =>
                      Len(proxyCalls[r]) = 1 /\ logWrites[r] = << >>
               /\ "400" \in Outcomes(r) =>
                      /\ modCalls[r] = << >>
                      /\ proxyCalls[r] = << >>
                      /\ logWrites[r] = << >>
               /\ "500" \in Outcomes(r) => logWrites[r] = << >>
               /\ Len(modResults[r]) = Len(modCalls[r])
               /\ pending[r] = NoCall
               /\ ~ENABLED Step(r)

\* A rejection on the first of several chunks: the handler ended with the
\* other chunks never moderated.
C19_Witness ==
    \E r \in Reqs :
        /\ pc[r] = "done"
        /\ "rejection" \in Outcomes(r)
        /\ Len(userContents[r]) > 1
        /\ Len(modCalls[r]) = 1

\* Text a is the beginning of text b.
IsPrefix(a, b) == TLen(a) <= TLen(b) /\ Take(b, TLen(a)) = a

\* The handler of r is inside appendToFile in this step.
Appends(r) == pc[r] = "log_write" /\ pc'[r] = "log_unlock"

\* C15: the flag log is append-only across concurrent requests: every step
\* leaves it an extension of what it was, only an append of
\* logFlaggedContent changes it, an append that succeeds adds exactly the
\* flagged chunk and a newline, a rejected request has made one append, and
\* a request that is forwarded, bypassed or ends in an error has made none.
C15_FlagLogAppendOnly ==
    [][ /\ IsPrefix(logFile, logFile')
        /\ logFile' # logFile => \E r \in Reqs : Appends(r)
        /\ \A r \in Reqs :
              /\ (Appends(r) /\ ~logWrites'[r][1].err) =>
                     logFile' = Cat(logFile, Cat(flaggedChunk(r), Run("\n", 1)))
              /\ ~Appends(r) => logWrites'[r] = logWrites[r]
              /\ pc'[r] = "done" =>
                     Len(logWrites'[r]) =
                         IF IsRejection(response'[r]) THEN 1 ELSE 0 ]_vars

\* The log holds the entries of two rejected requests, one after the other.
C15_Witness ==
    \E r1, r2 \in Reqs :
        /\ r1 # r2
        /\ pc[r1] = "done" /\ pc[r2] = "done"
        /\ logWrites[r1] # << >> /\ ~logWrites[r1][1].err
        /\ logWrites[r2] # << >> /\ ~logWrites[r2][1].err
        /\ logWrites[r1][1].content # logWrites[r2][1].content
        /\ logFile = Cat(logWrites[r1][1].content, logWrites[r2][1].content)

\* The requests inside logFlaggedContent with the exclusive lock taken.
Appending == { r \in Reqs : pc[r] \in {"log_write", "log_unlock"} }

\* The viewers inside GetBanndedContent with the shared lock taken.
Reading == { v \in Viewers : viewer[v].pc \in {"reading", "runlock"} }

\* The sequences of distinct requests that have appended.
AppendOrders ==
    { order \in UNION { [1 .. n -> Reqs] : n \in 0 .. NumReqs } :
        /\ \A i \in DOMAIN order : logWrites[order[i]] # << >>
        /\ \A i, j \in DOMAIN order : order[i] = order[j] => i = j }

\* The log is a sequence of whole entries, each the flagged chunk of one
\* rejection and a newline.
WholeEntries(log) ==
    \E order \in AppendOrders :
        log = CatAll([i \in DOMAIN order |-> logWrites[order[i]][1].content])

\* C16: at most one logFlaggedContent append is in progress at a time and
\* no GetBanndedContent read overlaps one, so the log, for a reader and at
\* rest, is a sequence of whole entries, never a mix of the partial writes
\* of two rejections.
C16_WritersExclusiveEntriesWhole ==
    /\ Cardinality(Appending) <= 1
    /\ Appending # {} => Reading = {}
    /\ \A r \in Appending : fileMutex.writer = r
    /\ fileMutex.readers = Reading
    /\ WholeEntries(logFile)
    /\ \A v \in Viewers :
          viewer[v].response.kind = "html" =>
              \E order \in AppendOrders :
                  viewer[v].response.body.html =
                      replaceNewlines(CatAll(
                          [i \in DOMAIN order |-> logWrites[order[i]][1].content]))

\* C20: the lock on the flag log is released on every path, also after a
\* failed append and after a failed read: a held lock is released, and
\* every request and every viewer waiting for the lock gets it and
\* completes.
C20_LockReleasedWaitersComplete ==
    /\ \A r \in Reqs :
          /\ (pc[r] = "log_lock") ~> (pc[r] = "done")
          /\ (fileMutex.writer = r) ~> (fileMutex.writer # r)
    /\ \A v \in Viewers :
          /\ (viewer[v].pc = "rlock") ~> (viewer[v].pc = "done")
          /\ (v \in fileMutex.readers) ~> (v \notin fileMutex.readers)

\* A request waits for the lock that another holds after a failed append,
\* and a viewer waits with it.
C20_Witness ==
    \E r1, r2 \in Reqs :
        /\ pc[r1] = "log_lock"
        /\ pc[r2] = "log_unlock"
        /\ logWrites[r2][1].err
        /\ \E v \in Viewers : viewer[v].pc = "rlock"

=============================================================================
